---- MODULE Spec2Model ----
(***************************************************************************)
(* A model of two parts of the components repository:                      *)
(*   - registry/AwsSnsTopic/src/index.js: the SNS topic component          *)
(*     (shouldDeploy, deploy, createSNSTopic, updateAttributes,            *)
(*     concatInputsAndState, resolveInSequence);                           *)
(*   - defineComponent (src/unnamed/part_000): the recursive definition    *)
(*     of a component tree against the state of the previous deployment.   *)
(***************************************************************************)
EXTENDS Integers, Sequences, FiniteSets, TLC

VARIABLES
  this,            \* the AwsSnsTopic instance being deployed
  prevInstance,    \* the instance of the previous deployment (defined or not)
  outcome,         \* what shouldDeploy returned
  pc,              \* where the deploy call stands
  path,            \* the branch deploy took: "create" or "update"
  calls,           \* the SDK calls issued so far, in order, with their status
  uaArn,           \* updateAttributes: its topicArn parameter
  uaPrev,          \* updateAttributes: its prevInstance parameter
  toUpdate,        \* updateAttributes: topicAttributesToUpdate
  queue,           \* updateAttributes: deliveryStatusAttributesToUpdate
  results,         \* resolveInSequence: the accumulated results
  rootState,       \* defineComponent: the state handed in for the root
  invocations,     \* defineComponent: its invocations, by the key path of the component
  parent,          \* the parent reference of every component
  children,        \* the children property of every component
  hydrated,        \* hydrateComponent: the state every component was hydrated with
  defined          \* what the define method of every component returns

topicVars == <<this, prevInstance, outcome, pc, path, calls, uaArn, uaPrev,
               toUpdate, queue, results>>

defineVars == <<rootState, invocations, parent, children, hydrated, defined>>

vars == <<topicVars, defineVars>>

(***************************************************************************)
(* Bounds of the model.                                                    *)
(***************************************************************************)
\* the longest deliveryStatusAttributes array of the inputs
MaxStatusAttributes == 2
\* the deepest component of a tree, the root being at depth 0
MaxDepth == 2

(***************************************************************************)
(* JavaScript values: undefined, strings, and objects (which have an       *)
(* identity, the reference, besides their content).                        *)
(***************************************************************************)
Undefined == [type |-> "undefined", v |-> "", ref |-> ""]
Str(s) == [type |-> "string", v |-> s, ref |-> ""]
Obj(r, s) == [type |-> "object", v |-> s, ref |-> r]

\* JavaScript truthiness: undefined and the empty string are falsy
Truthy(x) == x.type = "object" \/ (x.type = "string" /\ x.v # "")

isNil(x) == x.type = "undefined"

\* a === b: objects are compared by reference
StrictEquals(a, b) == a = b

\* equals of @serverless/utils: structural equality, references ignored
ValueEquals(a, b) == a.type = b.type /\ a.v = b.v

\* an object with one or more keys, as the sequence of its {key: value} pairs
Attr(k, x) == [key |-> k, value |-> x]

\* a slip: the objects compared by reference, as === does
equalsByReference(a, b) ==
  /\ Len(a) = Len(b)
  /\ \A i \in 1..Len(a) : a[i].key = b[i].key /\ a[i].value = b[i].value

equals(a, b) ==
  /\ Len(a) = Len(b)
  /\ \A i \in 1..Len(a) : a[i].key = b[i].key /\ ValueEquals(a[i].value, b[i].value)

\* head(keys(item)), head(values(item))
HeadKey(item) == IF item = <<>> THEN "undefined" ELSE item[1].key
HeadValue(item) == IF item = <<>> THEN Undefined ELSE item[1].value

\* an array that may be undefined
NoArray == [defined |-> FALSE, items |-> <<>>]
Array(s) == [defined |-> TRUE, items |-> s]

\* a parameter default "= []"
OrEmpty(a) == IF a.defined THEN a.items ELSE <<>>

\* resolve of @serverless/utils on a value that is no variable reference
resolve(x) == x

capitalize(string) ==
  CASE string = "displayName" -> "DisplayName"
    [] string = "policy" -> "Policy"
    [] string = "deliveryPolicy" -> "DeliveryPolicy"
    [] string = "sqsSuccessFeedbackRoleArn" -> "SqsSuccessFeedbackRoleArn"
    [] string = "sqsFailureFeedbackRoleArn" -> "SqsFailureFeedbackRoleArn"
    [] OTHER -> string

\* typeof value !== 'string' ? JSON.stringify(value) : value
AttributeValue(value) ==
  IF value.type # "string"
  THEN (IF value.type = "object" THEN Str("{" \o value.v \o "}") ELSE Undefined)
  ELSE value

(***************************************************************************)
(* concatInputsAndState                                                    *)
(***************************************************************************)
\* a slip: every attribute of the state is unset, also one the inputs hold
concatInputsAndStateEveryKey(inputs, state) ==
  LET removed[i \in 0..Len(state)] ==
        IF i = 0 THEN <<>>
        ELSE Append(removed[i - 1], <<Attr(HeadKey(state[i]), Str(""))>>)
      NotInState(item) == ~ \E j \in 1..Len(state) : equals(item, state[j])
  IN SelectSeq(inputs \o removed[Len(state)], NotInState)

\* a slip: the attributes that were removed are not unset
concatInputsAndStateNoUnset(inputs, state) ==
  LET NotInState(item) == ~ \E j \in 1..Len(state) : equals(item, state[j])
  IN SelectSeq(inputs, NotInState)

\* a slip: the unset entries are put before the inputs
concatInputsAndStateUnsetFirst(inputs, state) ==
  LET attributeKeys == {HeadKey(inputs[i]) : i \in 1..Len(inputs)}
      removed[i \in 0..Len(state)] ==
        IF i = 0 THEN <<>>
        ELSE IF HeadKey(state[i]) \notin attributeKeys
             THEN Append(removed[i - 1], <<Attr(HeadKey(state[i]), Str(""))>>)
             ELSE removed[i - 1]
      NotInState(item) == ~ \E j \in 1..Len(state) : equals(item, state[j])
  IN SelectSeq(removed[Len(state)] \o inputs, NotInState)

\* a slip: what the state holds already is not filtered out
concatInputsAndStateUnfiltered(inputs, state) ==
  LET attributeKeys == {HeadKey(inputs[i]) : i \in 1..Len(inputs)}
      removed[i \in 0..Len(state)] ==
        IF i = 0 THEN <<>>
        ELSE IF HeadKey(state[i]) \notin attributeKeys
             THEN Append(removed[i - 1], <<Attr(HeadKey(state[i]), Str(""))>>)
             ELSE removed[i - 1]
  IN inputs \o removed[Len(state)]

concatInputsAndState(inputs, state) ==
  LET attributeKeys == {HeadKey(inputs[i]) : i \in 1..Len(inputs)}
      removed[i \in 0..Len(state)] ==
        IF i = 0 THEN <<>>
        ELSE IF HeadKey(state[i]) \notin attributeKeys
             THEN Append(removed[i - 1], <<Attr(HeadKey(state[i]), Str(""))>>)
             ELSE removed[i - 1]
      NotInState(item) == ~ \E j \in 1..Len(state) : equals(item, state[j])
  IN SelectSeq(inputs \o removed[Len(state)], NotInState)

(***************************************************************************)
(* updateAttributes: the lists it computes                                 *)
(***************************************************************************)
\* a slip: the inputs without a value are kept
topicAttributesUnfiltered(args) ==
  << <<Attr("displayName", args.displayName)>>,
     <<Attr("policy", args.policy)>>,
     <<Attr("deliveryPolicy", args.deliveryPolicy)>> >>

\* lines 75-84: the inputs with a truthy value
topicAttributes(args) ==
  LET HasValue(item) == Truthy(HeadValue(item))
  IN SelectSeq(<< <<Attr("displayName", args.displayName)>>,
                  <<Attr("policy", args.policy)>>,
                  <<Attr("deliveryPolicy", args.deliveryPolicy)>> >>, HasValue)

\* lines 86-90: the attributes of the previous instance that are not nil
prevInstanceTopicAttributes(prev) ==
  LET NotNil(item) == ~ isNil(HeadValue(item))
  IN SelectSeq(<< <<Attr("displayName", prev.displayName)>>,
                  <<Attr("policy", prev.policy)>>,
                  <<Attr("deliveryPolicy", prev.deliveryPolicy)>> >>, NotNil)

\* line 93
topicAttributesToUpdate(args, prev) ==
  concatInputsAndState(topicAttributes(args), prevInstanceTopicAttributes(prev))

\* lines 98-103: one {key: value} object per key of every object of the array
flatDeliveryStatusAttributes(args) ==
  LET arr == OrEmpty(args.deliveryStatusAttributes)
      F[i \in 0..Len(arr)] ==
        IF i = 0 THEN <<>>
        ELSE F[i - 1] \o [j \in 1..Len(arr[i]) |-> <<arr[i][j]>>]
  IN F[Len(arr)]

\* lines 106-109
deliveryStatusAttributesToUpdate(args, prev) ==
  concatInputsAndState(flatDeliveryStatusAttributes(args),
                       OrEmpty(prev.deliveryStatusAttributes))

\* lines 117-124: what updateAttributes returns
updateAttributesResult(args) ==
  LET attrs == topicAttributes(args)
      names == {HeadKey(attrs[i]) : i \in 1..Len(attrs)}
  IN [f \in names \cup {"deliveryStatusAttributes"} |->
        IF f = "deliveryStatusAttributes"
        THEN Array(flatDeliveryStatusAttributes(args))
        ELSE HeadValue(attrs[CHOOSE i \in 1..Len(attrs) : HeadKey(attrs[i]) = f])]

\* merge of @serverless/utils: the keys of both, the right one's values first
merge(a, b) ==
  [f \in DOMAIN a \cup DOMAIN b |-> IF f \in DOMAIN b THEN b[f] ELSE a[f]]

\* Object.assign(target, props)
ObjectAssign(target, props) == merge(target, props)

(***************************************************************************)
(* The SDK calls                                                           *)
(***************************************************************************)
\* sns.createTopic({ Name: topicName })
CreateTopicCall(topicName) ==
  [op |-> "createTopic", Name |-> topicName, TopicArn |-> Undefined,
   AttributeName |-> "", AttributeValue |-> Undefined,
   group |-> "create", status |-> "pending"]

\* sns.setTopicAttributes(params), lines 130-136 and 146-152
SetTopicAttributesCall(arn, topicAttribute, group) ==
  [op |-> "setTopicAttributes", Name |-> Undefined, TopicArn |-> arn,
   AttributeName |-> capitalize(HeadKey(topicAttribute)),
   AttributeValue |-> AttributeValue(HeadValue(topicAttribute)),
   group |-> group, status |-> "pending"]

\* updateTopicAttributes: one call per attribute, all issued at once
updateTopicAttributes(arn, list) ==
  [i \in 1..Len(list) |-> SetTopicAttributesCall(arn, list[i], "primary")]

\* the ARN the provider gives a created topic
NewArn == Str("arn:created")

Pending(group) == {i \in 1..Len(calls) : calls[i].group = group /\ calls[i].status = "pending"}

(***************************************************************************)
(* The instances                                                           *)
(***************************************************************************)
Instance(tn, dn, po, dp, st) ==
  [defined |-> TRUE, topicName |-> tn, displayName |-> dn, policy |-> po,
   deliveryPolicy |-> dp, deliveryStatusAttributes |-> st,
   topicArn |-> Undefined, name |-> Undefined]

\* no previous instance
NoInstance ==
  [defined |-> FALSE, topicName |-> Undefined, displayName |-> Undefined,
   policy |-> Undefined, deliveryPolicy |-> Undefined,
   deliveryStatusAttributes |-> NoArray, topicArn |-> Undefined, name |-> Undefined]

\* the {} createSNSTopic hands to updateAttributes as the previous instance
EmptyObject == [NoInstance EXCEPT !.defined = TRUE]

\* merge({ topicArn: prevInstance.topicArn }, this): an instance that was never
\* deployed has no topicArn of its own
UpdateArn(self, prev) == IF isNil(self.topicArn) THEN prev.topicArn ELSE self.topicArn

\* a slip: deploy does not assign the topicArn
DeployPropsNoArn(self, prev, branch, arn) == updateAttributesResult(self)

\* what deploy assigns to the instance when it ends (lines 187-198, 202-203, 46)
DeployProps(self, prev, branch, arn) ==
  IF branch = "update"
  THEN merge(updateAttributesResult(self),
             [name |-> self.topicName, topicArn |-> prev.topicArn])
  ELSE merge([topicArn |-> arn, topicName |-> self.topicName],
             updateAttributesResult(self))

(***************************************************************************)
(* shouldDeploy                                                            *)
(***************************************************************************)
\* a slip: the policy is not compared
shouldDeployNameOnly(self, prev) ==
  IF ~ prev.defined THEN "deploy"
  ELSE IF ~ StrictEquals(prev.topicName, self.topicName) THEN "replace"
       ELSE "undefined"

shouldDeploy(self, prev) ==
  IF ~ prev.defined THEN "deploy"
  ELSE IF ~ StrictEquals(prev.topicName, self.topicName)
          \/ ~ StrictEquals(prev.policy, self.policy)
       THEN "replace"
       ELSE "undefined"

ShouldDeploy ==
  /\ pc = "constructed"
  /\ outcome' = shouldDeploy(this, prevInstance)
  /\ pc' = "decided"
  /\ UNCHANGED <<this, prevInstance, path, calls, uaArn, uaPrev, toUpdate, queue, results>>
  /\ UNCHANGED defineVars

(***************************************************************************)
(* deploy, createSNSTopic, updateAttributes, resolveInSequence             *)
(***************************************************************************)
\* a slip: a rejection does not stop the sequence
NextOperationAfterAny(fulfilled, n, count) == IF n < count THEN n + 1 ELSE 0

\* a slip: the operations are all started at once, as Promise.all would
StartOperationAndRest(cs, arn, list, n) ==
  cs \o [i \in 1..(Len(list) - n + 1) |-> SetTopicAttributesCall(arn, list[n + i - 1], "status")]

\* resolveInSequence, lines 21-27: the operation to start once operation n of
\* count has settled (0: none); a rejection skips every later then-callback
NextOperation(fulfilled, n, count) == IF fulfilled /\ n < count THEN n + 1 ELSE 0

\* resolveInSequence, line 24: functionToExecute() is called, which issues the
\* call of lines 146-152 for the n-th attribute
StartOperation(cs, arn, list, n) ==
  Append(cs, SetTopicAttributesCall(arn, list[n], "status"))

\* updateAttributes has ended: deploy assigns what it returned
Fulfil(cs, branch, arn, prev) ==
  /\ calls' = cs
  /\ this' = ObjectAssign(this, DeployProps(this, prev, branch, arn))
  /\ pc' = "fulfilled"

\* lines 97-115: the primary group has been updated; the delivery status
\* attributes are flattened and compared, and resolveInSequence starts on them
UpdateDeliveryStatus(cs, branch, arn, prev) ==
  LET list == deliveryStatusAttributesToUpdate(this, prev)
  IN /\ queue' = list
     /\ results' = <<>>
     /\ IF list = <<>>
        THEN Fulfil(cs, branch, arn, prev)
        ELSE /\ calls' = StartOperation(cs, arn, list, 1)
             /\ pc' = "status"
             /\ UNCHANGED this

\* lines 70-95: updateAttributes is entered and issues the primary group's calls
UpdateAttributes(cs, branch, arn, prev) ==
  LET list == topicAttributesToUpdate(this, prev)
  IN /\ uaArn' = arn
     /\ uaPrev' = prev
     /\ toUpdate' = list
     /\ IF list = <<>>
        THEN UpdateDeliveryStatus(cs, branch, arn, prev)
        ELSE /\ calls' = cs \o updateTopicAttributes(arn, list)
             /\ pc' = "primary"
             /\ UNCHANGED <<this, queue, results>>

\* deploy is called: lines 180-186 and 200-202, 33
Deploy ==
  /\ pc = "decided"
  /\ IF prevInstance.defined /\ StrictEquals(prevInstance.topicName, resolve(this.topicName))
     THEN /\ path' = "update"
          /\ UpdateAttributes(calls, "update", UpdateArn(this, prevInstance), prevInstance)
     ELSE /\ path' = "create"
          /\ calls' = Append(calls, CreateTopicCall(this.topicName))
          /\ pc' = "createTopic"
          /\ UNCHANGED <<this, uaArn, uaPrev, toUpdate, queue, results>>
  /\ UNCHANGED <<prevInstance, outcome>>
  /\ UNCHANGED defineVars

\* createTopic settles: line 33
CreateTopicSettles ==
  /\ pc = "createTopic"
  /\ \E i \in Pending("create") :
       \/ /\ UpdateAttributes([calls EXCEPT ![i].status = "ok"], "create", NewArn, EmptyObject)
          /\ UNCHANGED <<prevInstance, outcome, path>>
       \/ /\ calls' = [calls EXCEPT ![i].status = "failed"]
          /\ pc' = "rejected"
          /\ UNCHANGED <<this, prevInstance, outcome, path, uaArn, uaPrev, toUpdate, queue, results>>
  /\ UNCHANGED defineVars

\* a slip: updateAttributes goes on once one call of the group is fulfilled
PrimaryGroupDoneAfterAny(i) == pc = "primary"

\* a slip: the calls are awaited as Promise.allSettled would, a rejection
\* among them ignored
PrimaryGroupSettled(i) == Pending("primary") = {i}

\* Promise.all, line 137: call i is fulfilled, it was the last one pending,
\* and none of the group was rejected
PrimaryGroupDone(i) == pc = "primary" /\ Pending("primary") = {i}

\* one call of the primary group settles: Promise.all, lines 95 and 127-138
PrimarySettles ==
  /\ pc \in {"primary", "rejected"}
  /\ \E i \in Pending("primary") :
       \/ LET cs == [calls EXCEPT ![i].status = "ok"]
          IN IF PrimaryGroupDone(i)
             THEN /\ UpdateDeliveryStatus(cs, path, uaArn, uaPrev)
                  /\ UNCHANGED <<prevInstance, outcome, path, uaArn, uaPrev, toUpdate>>
             ELSE /\ calls' = cs
                  /\ UNCHANGED <<this, prevInstance, outcome, pc, path, uaArn, uaPrev,
                                 toUpdate, queue, results>>
       \/ /\ calls' = [calls EXCEPT ![i].status = "failed"]
          /\ pc' = "rejected"
          /\ UNCHANGED <<this, prevInstance, outcome, path, uaArn, uaPrev, toUpdate,
                         queue, results>>
  /\ UNCHANGED defineVars

\* the call of resolveInSequence that is in flight settles: lines 21-27, 140-156
StatusSettles ==
  /\ pc = "status"
  /\ \E i \in Pending("status"), fulfilled \in BOOLEAN :
       LET cs == [calls EXCEPT ![i].status = IF fulfilled THEN "ok" ELSE "failed"]
           done == IF fulfilled THEN Append(results, i) ELSE results
           n == Cardinality({j \in 1..Len(calls) : calls[j].group = "status"})
           next == NextOperation(fulfilled, n, Len(queue))
       IN /\ results' = done
          /\ IF next # 0
             THEN /\ calls' = StartOperation(cs, uaArn, queue, next)
                  /\ pc' = IF fulfilled THEN pc ELSE "rejected"
                  /\ UNCHANGED this
             ELSE IF fulfilled
                  THEN Fulfil(cs, path, uaArn, uaPrev)
                  ELSE /\ calls' = cs
                       /\ pc' = "rejected"
                       /\ UNCHANGED this
          /\ UNCHANGED <<prevInstance, outcome, path, uaArn, uaPrev, toUpdate, queue>>
  /\ UNCHANGED defineVars

(***************************************************************************)
(* defineComponent: the components, the key paths, the states              *)
(***************************************************************************)
\* the names define gives its children
Names == {"x", "y"}

\* a component is invoked under the path of names that leads to it
Paths == UNION {[1..n -> Names] : n \in 0..MaxDepth}

Root == <<0, "root">>
ComponentsAt(d) ==
  IF d = 0 THEN {Root} ELSE IF d = 1 THEN {<<1, "a">>, <<1, "b">>} ELSE {<<d, "a">>}
Components == UNION {ComponentsAt(d) : d \in 0..MaxDepth}

\* no component (a parent that was never set), and a value that is none
NoComponent == <<0, "">>
NotAComponent == <<0, "a string">>

isComponent(value) == value \in Components

\* the previous deployment: the components under "x" had children, those
\* under "y" had none
InPrevious(p) == \A i \in 1..(Len(p) - 1) : p[i] = "x"

\* the state parameter: undefined, a node of the previous deployment, or a
\* clone of a component with the clones of its children
NoState == [kind |-> "undefined", path |-> <<>>, of |-> NoComponent, children |-> {}]
Previous(p) == [kind |-> "previous", path |-> p, of |-> NoComponent, children |-> {}]

RECURSIVE clone(_)
clone(component) ==
  [kind |-> "clone", path |-> <<>>, of |-> component,
   children |-> {<<e[1], clone(e[2])>> : e \in children[component].entries}]

\* get(['children', key], state)
get(key, state) ==
  CASE state.kind = "previous" ->
         IF Len(state.path) < MaxDepth /\ InPrevious(Append(state.path, key))
         THEN Previous(Append(state.path, key))
         ELSE NoState
    [] state.kind = "clone" ->
         IF \E e \in state.children : e[1] = key
         THEN (CHOOSE e \in state.children : e[1] = key)[2]
         ELSE NoState
    [] OTHER -> NoState

\* what a define method returns: the component has none, or it returns
\* nothing, a string, or an object of named values
NoDefine == [kind |-> "none", entries |-> {}]
NotDefinedYet == [kind |-> "unset", entries |-> {}]

\* the objects with some of the given keys, and the given values
Objects(keys, values) ==
  UNION {{ {<<key, f[key]>> : key \in S} : f \in [S -> values] } : S \in SUBSET keys \ {{}}}

\* the root names up to two children; a component below it names at most
\* one, "x"; a component at the greatest depth has no component for a child
DefineResults(depth) ==
  {NoDefine, [kind |-> "undefined", entries |-> {}], [kind |-> "string", entries |-> {}]}
  \cup {[kind |-> "object", entries |-> o] :
          o \in Objects(IF depth = 0 THEN Names ELSE {"x"},
                        (IF depth < MaxDepth THEN ComponentsAt(depth + 1) ELSE {})
                        \cup {NotAComponent})}

DefineResultsAt == [depth \in 0..MaxDepth |-> DefineResults(depth)]

\* filter(isComponent, map(resolve, children))
ValidChildren(entries) == {e \in entries : isComponent(e[2])}

\* what an invocation is rejected with: nothing, or an error and the value
\* its message names
NoError == [type |-> "", value |-> NoComponent]
TypeError(value) == [type |-> "TypeError", value |-> value]
Error(value) == [type |-> "Error", value |-> value]

\* an invocation of defineComponent: clone is the object sync is called on,
\* syncs counts the calls of sync, assigns the assignments of children
Idle ==
  [pc |-> "idle", component |-> NoComponent, stateIn |-> NoState, clone |-> NoState,
   state |-> NoState, status |-> "", error |-> NoError, syncs |-> 0, assigns |-> 0]

\* a slip: define is called before sync
InvokedDefineFirst(component, state) ==
  IF ~ isComponent(component)
  THEN [Idle EXCEPT !.pc = "failed", !.component = component, !.stateIn = state,
                    !.error = TypeError(component)]
  ELSE [Idle EXCEPT !.pc = "define", !.component = component, !.stateIn = state,
                    !.clone = clone(component), !.state = state]

\* lines 21-34: the component is checked and cloned, and sync is called on the clone
Invoked(component, state) ==
  IF ~ isComponent(component)
  THEN [Idle EXCEPT !.pc = "failed", !.component = component, !.stateIn = state,
                    !.error = TypeError(component)]
  ELSE [Idle EXCEPT !.pc = "sync", !.component = component, !.stateIn = state,
                    !.clone = clone(component), !.state = state, !.syncs = 1]

\* a slip: whatever define returns is taken for a collection
isObjectAlways(result) == TRUE

\* line 45: isObject(children), on what define returned with the values
\* that are no components dropped: a string is no object
isObject(result) == result.kind # "string"

\* a slip: the children are awaited until the first of them is fulfilled
AnyFulfilled(p) ==
  \/ \A q \in Paths : ~ (Len(q) = Len(p) + 1 /\ SubSeq(q, 1, Len(p)) = p
                            /\ invocations[q].pc # "idle")
  \/ \E q \in Paths : /\ Len(q) = Len(p) + 1
                       /\ SubSeq(q, 1, Len(p)) = p
                       /\ invocations[q].pc = "done"

\* lines 56-59: the promise of every child's invocation is fulfilled
AllFulfilled(p) ==
  \A q \in Paths : (/\ Len(q) = Len(p) + 1
                     /\ SubSeq(q, 1, Len(p)) = p
                     /\ invocations[q].pc # "idle") => invocations[q].pc = "done"

\* hydrateComponent(component, state, context): the component, hydrated
\* with the state
hydrateComponent(component, state) == [done |-> TRUE, state |-> state]

\* lines 36-38: the state defineComponent goes on with
StateAfterSync(status, state, componentClone) ==
  IF status # "removed" THEN componentClone ELSE state

\* the invocations an invocation has made for its children
ChildrenOf(p) ==
  {q \in Paths : /\ Len(q) = Len(p) + 1
                 /\ SubSeq(q, 1, Len(p)) = p
                 /\ invocations[q].pc # "idle"}

(***************************************************************************)
(* defineComponent: its steps                                              *)
(***************************************************************************)
\* defineComponent is called on the root
DefineRoot ==
  /\ invocations[<<>>].pc = "idle"
  /\ \E component \in {Root, NotAComponent} :
       invocations' = [invocations EXCEPT ![<<>>] = Invoked(component, rootState)]
  /\ UNCHANGED <<rootState, parent, children, hydrated, defined>>
  /\ UNCHANGED topicVars

\* lines 34-42: sync settles; the state is chosen, the component is hydrated,
\* and define, when there is one, is called
SyncSettles ==
  /\ \E p \in {q \in Paths : invocations[q].pc = "sync"}, status \in {"removed", "synced"} :
     \E result \in DefineResultsAt[Len(p)] :
       LET inv == invocations[p]
           state == StateAfterSync(status, inv.stateIn, inv.clone)
       IN /\ defined[inv.component] \in {NotDefinedYet, result}
          /\ defined' = [defined EXCEPT ![inv.component] = result]
          /\ hydrated' = [hydrated EXCEPT ![inv.component] = hydrateComponent(inv.component, state)]
          /\ invocations' = [invocations EXCEPT ![p] =
                [inv EXCEPT !.status = status, !.state = state,
                            !.pc = IF result = NoDefine THEN "done" ELSE "define"]]
  /\ UNCHANGED <<rootState, parent, children>>
  /\ UNCHANGED topicVars

\* lines 42-59: define settles; what is no component is dropped, the parent
\* of every child is set, and defineComponent is called on every child
DefineSettles ==
  /\ \E p \in {q \in Paths : invocations[q].pc = "define"} :
       LET inv == invocations[p]
           result == defined[inv.component]
           valid == ValidChildren(result.entries)
       IN IF ~ isObject(result)
          THEN /\ invocations' = [invocations EXCEPT ![p].pc = "failed",
                                                     ![p].error = Error(inv.component)]
               /\ UNCHANGED parent
          ELSE /\ parent' = [c \in Components |->
                               IF \E e \in valid : e[2] = c THEN inv.component
                               ELSE parent[c]]
               /\ invocations' = [q \in Paths |->
                     IF q = p THEN [inv EXCEPT !.pc = "children"]
                     ELSE IF /\ Len(q) = Len(p) + 1
                             /\ SubSeq(q, 1, Len(p)) = p
                             /\ \E e \in valid : e[1] = q[Len(q)]
                          THEN Invoked((CHOOSE e \in valid : e[1] = q[Len(q)])[2],
                                       get(q[Len(q)], inv.state))
                          ELSE invocations[q]]
  /\ UNCHANGED <<rootState, children, hydrated, defined>>
  /\ UNCHANGED topicVars

\* lines 56-61: the invocations of the children settle: the first rejection
\* rejects this one; when all are fulfilled, children is assigned
ChildrenSettle ==
  /\ \E p \in {q \in Paths : invocations[q].pc = "children"} :
       LET inv == invocations[p]
       IN IF \E q \in ChildrenOf(p) : invocations[q].pc = "failed"
          THEN /\ \E q \in {r \in ChildrenOf(p) : invocations[r].pc = "failed"} :
                    invocations' = [invocations EXCEPT ![p].pc = "failed",
                                                      ![p].error = invocations[q].error]
               /\ UNCHANGED children
          ELSE /\ AllFulfilled(p)
               /\ children' = [children EXCEPT ![inv.component] =
                     [set |-> TRUE,
                      entries |-> {<<q[Len(q)], invocations[q].component>> : q \in ChildrenOf(p)}]]
               /\ invocations' = [invocations EXCEPT ![p].pc = "done",
                                                     ![p].assigns = inv.assigns + 1]
  /\ UNCHANGED <<rootState, parent, hydrated, defined>>
  /\ UNCHANGED topicVars

\* before defineComponent is called
DefineIdle ==
  /\ invocations = [p \in Paths |-> Idle]
  /\ parent = [c \in Components |-> NoComponent]
  /\ children = [c \in Components |-> [set |-> FALSE, entries |-> {}]]
  /\ hydrated = [c \in Components |-> [done |-> FALSE, state |-> NoState]]
  /\ defined = [c \in Components |-> NotDefinedYet]

(***************************************************************************)
(* The inputs                                                              *)
(***************************************************************************)
SeqsUpTo(S, n) == UNION {[1..k -> S] : k \in 0..n}

DisplayNames == {Undefined, Str(""), Str("Orders"), Str("Order Events")}
PrevDisplayNames == {Undefined, Str(""), Str("Orders")}
Policies(ref) == {Undefined, Str("P1"), Obj(ref, "P")}
DeliveryPolicies == {Undefined, Str("D1")}

\* the objects of a deliveryStatusAttributes array
StatusObjects ==
  { <<Attr("sqsSuccessFeedbackRoleArn", Str("r1"))>>,
    <<Attr("sqsSuccessFeedbackRoleArn", Str("r2")),
      Attr("sqsFailureFeedbackRoleArn", Str("r1"))>> }

StatusArrays == {NoArray} \cup {Array(a) : a \in SeqsUpTo(StatusObjects, MaxStatusAttributes)}

\* an instance as construct leaves it
Constructed(names, displays, policies, deliveries, arrays) ==
  {Instance(tn, dn, po, dp, st) :
     tn \in names, dn \in displays, po \in policies, dp \in deliveries, st \in arrays}

\* an instance as a deploy that ended well leaves it
Deployed(self) ==
  ObjectAssign(self, DeployProps(self, EmptyObject, "create", Str("arn:previous")))

\* the previous instances: of the same topic name, every one; of another
\* name, where deploy and shouldDeploy read the name and the policy only
PrevInstances ==
  {NoInstance}
  \cup {Deployed(i) : i \in Constructed({Str("orders")}, PrevDisplayNames, Policies("prev"),
                                        DeliveryPolicies, StatusArrays)}
  \cup {Deployed(i) : i \in Constructed({Str("events")}, {Str("Orders")}, Policies("prev"),
                                        {Undefined}, {NoArray})}

Init ==
  /\ this \in Constructed({Str("orders")}, DisplayNames, Policies("this"),
                          DeliveryPolicies, StatusArrays)
  /\ prevInstance \in PrevInstances
  /\ outcome = "unset"
  /\ pc = "constructed"
  /\ path = "none"
  /\ calls = <<>>
  /\ uaArn = Undefined
  /\ uaPrev = NoInstance
  /\ toUpdate = <<>>
  /\ queue = <<>>
  /\ results = <<>>
  /\ rootState = NoState
  /\ DefineIdle

Next ==
  \/ ShouldDeploy
  \/ Deploy
  \/ CreateTopicSettles
  \/ PrimarySettles
  \/ StatusSettles

Spec == Init /\ [][Next]_vars

(***************************************************************************)
(* defineComponent on a tree, with or without the state of a previous      *)
(* deployment                                                              *)
(***************************************************************************)
InitDefine ==
  /\ rootState \in {NoState, Previous(<<>>)}
  /\ DefineIdle
  /\ this = NoInstance
  /\ prevInstance = NoInstance
  /\ outcome = "unset"
  /\ pc = "idle"
  /\ path = "none"
  /\ calls = <<>>
  /\ uaArn = Undefined
  /\ uaPrev = NoInstance
  /\ toUpdate = <<>>
  /\ queue = <<>>
  /\ results = <<>>

NextDefine ==
  \/ DefineRoot
  \/ SyncSettles
  \/ DefineSettles
  \/ ChildrenSettle

SpecDefine == InitDefine /\ [][NextDefine]_vars

(***************************************************************************)
(* What the claims speak of                                                *)
(***************************************************************************)
CallsOf(op) == {i \in 1..Len(calls) : calls[i].op = op}

StatusCalls == {i \in 1..Len(calls) : calls[i].group = "status"}

\* the k-th call resolveInSequence issued
StatusCall(k) == CHOOSE i \in StatusCalls : Cardinality({j \in StatusCalls : j < i}) = k - 1

\* updateAttributes has computed topicAttributesToUpdate
PrimaryCompared == uaPrev.defined

\* updateAttributes has computed deliveryStatusAttributesToUpdate
StatusCompared == pc \in {"status", "fulfilled"} \/ StatusCalls # {}

KeysOf(list) == {HeadKey(list[i]) : i \in 1..Len(list)}

DistinctKeys(list) ==
  \A i, j \in 1..Len(list) : HeadKey(list[i]) = HeadKey(list[j]) => i = j

\* the attributes a list of one-key objects gives each key (the last entry's)
ValueIn(list, k) ==
  IF k \in KeysOf(list)
  THEN HeadValue(list[CHOOSE i \in 1..Len(list) :
                        /\ HeadKey(list[i]) = k
                        /\ \A j \in (i + 1)..Len(list) : HeadKey(list[j]) # k])
  ELSE Undefined

\* a change list applied to the previous attributes, one entry after another
Applied(changes, previous, k) ==
  IF k \in KeysOf(changes) THEN ValueIn(changes, k) ELSE ValueIn(previous, k)

\* unset: never set, or set to the empty string
Unset(x) == isNil(x) \/ (x.type = "string" /\ x.v = "")

PrimaryKeys == {"displayName", "policy", "deliveryPolicy"}
StatusKeys == {"sqsSuccessFeedbackRoleArn", "sqsFailureFeedbackRoleArn"}

\* scenario A: {topicName: "orders", displayName: "Orders"}, no previous instance
ScenarioA ==
  /\ ~ prevInstance.defined
  /\ this.topicName = Str("orders")
  /\ this.displayName = Str("Orders")
  /\ isNil(this.policy)
  /\ isNil(this.deliveryPolicy)
  /\ flatDeliveryStatusAttributes(this) = <<>>

\* the previous instance is this one deployed: nothing was changed
Unchanged ==
  /\ prevInstance.defined
  /\ ValueEquals(prevInstance.topicName, this.topicName)
  /\ \A k \in PrimaryKeys : ValueEquals(prevInstance[k], this[k])
  /\ OrEmpty(prevInstance.deliveryStatusAttributes) = flatDeliveryStatusAttributes(this)

(***************************************************************************)
(* C3. Scenario A as written: the deploy of {topicName: "orders",          *)
(* displayName: "Orders"} with no previous instance ends after exactly one *)
(* createTopic call and no setTopicAttributes call.                        *)
(***************************************************************************)
C3_CreateOnly ==
  (ScenarioA /\ pc = "fulfilled") =>
    /\ path = "create"
    /\ Cardinality(CallsOf("createTopic")) = 1
    /\ Cardinality(CallsOf("setTopicAttributes")) = 0

(***************************************************************************)
(* C3, amended. In scenario A deploy takes the create path and issues one  *)
(* createTopic call for "orders" and then, once it has succeeded, exactly  *)
(* one setTopicAttributes call, which sets DisplayName to "Orders" on the  *)
(* created topic; nothing else is called.                                  *)
(***************************************************************************)
C3_CreateThenDisplayName ==
  LET create == [CreateTopicCall(Str("orders")) EXCEPT !.status = "ok"]
      display == SetTopicAttributesCall(NewArn, <<Attr("displayName", Str("Orders"))>>, "primary")
  IN ScenarioA =>
       /\ pc \notin {"constructed", "decided"} => path = "create"
       /\ Len(calls) <= 2
       /\ Len(calls) >= 1 => calls[1].op = "createTopic" /\ calls[1].Name = Str("orders")
       /\ Len(calls) = 2 =>
            /\ calls[1] = create
            /\ [calls[2] EXCEPT !.status = "pending"] = display
       /\ pc = "fulfilled" => calls = <<create, [display EXCEPT !.status = "ok"]>>

C3_Witness == ScenarioA /\ pc = "fulfilled" /\ Len(calls) = 2

(***************************************************************************)
(* C4. As written: neither change list (of the primary group, of the       *)
(* delivery status attributes) ever holds two entries with the same key.   *)
(***************************************************************************)
C4_NoDuplicateKey == DistinctKeys(toUpdate) /\ DistinctKeys(queue)

(***************************************************************************)
(* C4, amended. The change list of the primary group never holds two       *)
(* entries with the same key; that of the delivery status attributes holds *)
(* none when no key occurs twice in the flattened desired list and none    *)
(* occurs twice in the previous list.                                      *)
(***************************************************************************)
C4_NoDuplicateKeyOfDistinct ==
  /\ DistinctKeys(toUpdate)
  /\ (/\ DistinctKeys(flatDeliveryStatusAttributes(this))
      /\ DistinctKeys(OrEmpty(uaPrev.deliveryStatusAttributes))) => DistinctKeys(queue)

C4_Witness ==
  /\ Len(toUpdate) >= 2
  /\ Len(queue) >= 2
  /\ KeysOf(OrEmpty(uaPrev.deliveryStatusAttributes)) # {}
  /\ DistinctKeys(flatDeliveryStatusAttributes(this))
  /\ DistinctKeys(OrEmpty(uaPrev.deliveryStatusAttributes))

(***************************************************************************)
(* C5. resolveInSequence starts an operation only once the one before it   *)
(* has settled, so at most one call of it is in flight; the calls are      *)
(* issued in the order of the change list and the results are accumulated  *)
(* in that order.                                                          *)
(***************************************************************************)
C5_OneAfterAnother ==
  LET n == Cardinality(StatusCalls)
  IN /\ Cardinality(Pending("status")) <= 1
     /\ n <= Len(queue)
     /\ \A k \in 1..n :
          /\ [calls[StatusCall(k)] EXCEPT !.status = "pending"]
               = SetTopicAttributesCall(uaArn, queue[k], "status")
          /\ k < n => calls[StatusCall(k)].status = "ok"
     /\ Len(results) <= n
     /\ \A k \in 1..Len(results) :
          results[k] = StatusCall(k) /\ calls[results[k]].status = "ok"
     /\ \A k \in 1..n : calls[StatusCall(k)].status = "ok" => k <= Len(results)

C5_Witness ==
  /\ pc = "fulfilled"
  /\ Len(queue) >= 3
  /\ Len(results) = Len(queue)
  /\ queue[1] # queue[2]

(***************************************************************************)
(* C6. When an operation of resolveInSequence rejects, no later operation  *)
(* is ever started, deploy is rejected, and the updates before it stay     *)
(* applied.                                                                *)
(***************************************************************************)
C6_StopsAtFirstRejection ==
  \A i \in StatusCalls :
    calls[i].status = "failed" =>
      /\ pc = "rejected"
      /\ \A j \in StatusCalls : j <= i
      /\ \A j \in 1..Len(calls) : j < i => calls[j].status = "ok"
      /\ Len(results) = Cardinality(StatusCalls) - 1

C6_Witness ==
  /\ pc = "rejected"
  /\ Len(results) >= 1
  /\ Cardinality(StatusCalls) < Len(queue)
  /\ \E i \in StatusCalls : calls[i].status = "failed"

(***************************************************************************)
(* C7. Round trip of the comparison, for attribute sets (no key twice):    *)
(* the change list applied to the previous attributes gives the desired    *)
(* ones. Every key with a truthy desired value ends with that value, and   *)
(* every key that only the previous attributes hold ends unset.            *)
(***************************************************************************)
C7_RoundTrip ==
  /\ PrimaryCompared =>
       LET desired == topicAttributes(this)
           previous == prevInstanceTopicAttributes(uaPrev)
       IN \A k \in PrimaryKeys :
            /\ k \in KeysOf(desired) =>
                 ValueEquals(Applied(toUpdate, previous, k), ValueIn(desired, k))
            /\ k \in KeysOf(previous) \ KeysOf(desired) =>
                 Unset(Applied(toUpdate, previous, k))
  /\ StatusCompared =>
       LET desired == flatDeliveryStatusAttributes(this)
           previous == OrEmpty(uaPrev.deliveryStatusAttributes)
       IN (DistinctKeys(desired) /\ DistinctKeys(previous)) =>
            \A k \in StatusKeys :
              /\ k \in KeysOf(desired) =>
                   ValueEquals(Applied(queue, previous, k), ValueIn(desired, k))
              /\ k \in KeysOf(previous) \ KeysOf(desired) =>
                   Unset(Applied(queue, previous, k))

C7_Witness ==
  /\ StatusCompared
  /\ path = "update"
  /\ DistinctKeys(flatDeliveryStatusAttributes(this))
  /\ DistinctKeys(OrEmpty(uaPrev.deliveryStatusAttributes))
  /\ KeysOf(OrEmpty(uaPrev.deliveryStatusAttributes)) \ KeysOf(flatDeliveryStatusAttributes(this)) # {}
  /\ KeysOf(prevInstanceTopicAttributes(uaPrev)) \ KeysOf(topicAttributes(this)) # {}
  /\ \E i \in 1..Len(toUpdate) : Truthy(HeadValue(toUpdate[i]))
  /\ \E i \in 1..Len(queue) : Truthy(HeadValue(queue[i]))

(***************************************************************************)
(* C8. Comparing an instance with itself gives empty change lists, so the  *)
(* deploy of an unchanged instance issues no call at all.                  *)
(***************************************************************************)
C8_UnchangedNoUpdate ==
  Unchanged =>
    /\ calls = <<>>
    /\ toUpdate = <<>>
    /\ queue = <<>>
    /\ pc \notin {"constructed", "decided"} => pc = "fulfilled" /\ path = "update"

C8_Witness ==
  /\ Unchanged
  /\ pc = "fulfilled"
  /\ this.policy.type = "object"
  /\ Truthy(this.deliveryPolicy)
  /\ Len(flatDeliveryStatusAttributes(this)) >= 2

WasInvoked(p) == invocations[p].pc # "idle"

\* the node of the previous deployment at the key path p, if there is one
PreviousAt(p) ==
  IF rootState.kind = "previous" /\ InPrevious(p) THEN Previous(p) ELSE NoState

(***************************************************************************)
(* C1. Whenever sync returns 'removed', the state handed in is discarded:  *)
(* the component is hydrated with an empty state, and its children are     *)
(* given no previous state.                                                *)
(***************************************************************************)
C1_RemovedDiscardsState ==
  \A p \in Paths :
    invocations[p].status = "removed" =>
      /\ invocations[p].state = NoState
      /\ \A q \in ChildrenOf(p) : invocations[q].stateIn = NoState

(***************************************************************************)
(* C2. The invocation on the child named k gets children[k] of the state   *)
(* that was handed in for its parent, so every component is given the node *)
(* of the previous deployment at its own key path, or nothing when there   *)
(* is no such node.                                                        *)
(***************************************************************************)
C2_ChildGetsPreviousChild ==
  \A p \in Paths :
    /\ \A q \in ChildrenOf(p) :
         invocations[q].stateIn = get(q[Len(q)], invocations[p].stateIn)
    /\ WasInvoked(p) => invocations[p].stateIn = PreviousAt(p)

(***************************************************************************)
(* C10. A parent reference, once set, is never overwritten by another: a   *)
(* child that define returns and that has a parent already keeps it.       *)
(***************************************************************************)
C10_ParentKept ==
  [][\A c \in Components : parent[c] # NoComponent => parent'[c] = parent[c]]_vars

\* the invocation under p has gone past its define: what define returned
\* has been looked at
DefineSettled(p) ==
  /\ invocations[p].status # ""
  /\ invocations[p].pc \in {"children", "done", "failed"}

\* the names of the children the invocation under p was made for
NamesOf(p) == {q[Len(q)] : q \in ChildrenOf(p)}

(***************************************************************************)
(* C11. When define returns a value that is no collection (a string), the  *)
(* invocation is rejected with an Error that names the component, no       *)
(* invocation is made for a child (so no child's sync is called), and the  *)
(* children of the component are never assigned.                           *)
(***************************************************************************)
C11_NoCollectionRejected ==
  \A p \in Paths :
    LET inv == invocations[p]
    IN (isComponent(inv.component) /\ DefineSettled(p)
        /\ defined[inv.component].kind = "string") =>
         /\ inv.pc = "failed"
         /\ inv.error = Error(inv.component)
         /\ ChildrenOf(p) = {}
         /\ ~ children[inv.component].set
         /\ inv.assigns = 0

C11_Witness ==
  \E p \in Paths :
    /\ Len(p) = 1
    /\ invocations[p].pc = "failed"
    /\ invocations[p].status = "synced"
    /\ defined[invocations[p].component].kind = "string"
    /\ invocations[<<>>].pc = "failed"
    /\ invocations[<<>>].error = Error(invocations[p].component)

(***************************************************************************)
(* C12. The invocations for the children of a component are all made at    *)
(* once, when define has settled, and settle in any order; the invocation  *)
(* of the parent is fulfilled only when every one of them is, and then the *)
(* children of the component are the components define returned, each      *)
(* under its name and with its own invocation fulfilled.                   *)
(***************************************************************************)
C12_AllChildrenBeforeParent ==
  \A p \in Paths :
    LET inv == invocations[p]
        valid == IF isComponent(inv.component)
                 THEN ValidChildren(defined[inv.component].entries) ELSE {}
    IN /\ (inv.pc \in {"children", "done"}) =>
            /\ NamesOf(p) = {e[1] : e \in valid}
            /\ \A q \in ChildrenOf(p) : <<q[Len(q)], invocations[q].component>> \in valid
       /\ (inv.pc = "done" /\ defined[inv.component] # NoDefine) =>
            /\ \A q \in ChildrenOf(p) : invocations[q].pc = "done"
            /\ children[inv.component].set
            /\ children[inv.component].entries = valid

C12_Witness ==
  /\ invocations[<<>>].pc = "done"
  /\ invocations[<<"x">>].pc = "done"
  /\ invocations[<<"y">>].pc = "done"
  /\ invocations[<<"x">>].component # invocations[<<"y">>].component
  /\ invocations[<<"x", "x">>].pc = "done"
  /\ Cardinality(children[Root].entries) = 2

\* two siblings in flight at once, the second child ahead of the first
C12_WitnessConcurrent ==
  /\ invocations[<<>>].pc = "children"
  /\ invocations[<<"x">>].pc = "sync"
  /\ invocations[<<"y">>].pc = "done"

(***************************************************************************)
(* What the claims about deploy speak of                                   *)
(***************************************************************************)
\* deploy has been called
Started == pc \notin {"constructed", "decided"}

\* there is a previous instance of the same topic name
SameTopic == prevInstance.defined /\ prevInstance.topicName = this.topicName

PrimaryCalls == {i \in 1..Len(calls) : calls[i].group = "primary"}

\* every attribute the previous list holds with a value and the desired one
\* does not name is unset by an entry behind every entry of the desired ones
UnsetAfterDesired(changes, desired, previous) ==
  \A k \in KeysOf(previous) \ KeysOf(desired) :
    Truthy(ValueIn(previous, k)) =>
      \E i \in 1..Len(changes) :
        /\ changes[i] = <<Attr(k, Str(""))>>
        /\ \A j \in 1..Len(changes) : HeadKey(changes[j]) \in KeysOf(desired) => j < i

\* a change list holds nothing the previous list holds, and nothing but
\* desired entries and unset entries of keys that were removed
OnlyChanges(changes, desired, previous) ==
  \A i \in 1..Len(changes) :
    /\ ~ \E j \in 1..Len(previous) : equals(changes[i], previous[j])
    /\ \/ \E j \in 1..Len(desired) : changes[i] = desired[j]
       \/ /\ HeadKey(changes[i]) \in KeysOf(previous) \ KeysOf(desired)
          /\ changes[i] = <<Attr(HeadKey(changes[i]), Str(""))>>

NoStatusAttributes(instance) == OrEmpty(instance.deliveryStatusAttributes) = <<>>

\* scenario B: the displayName of "orders" goes from "Orders" to "Order Events"
ScenarioB ==
  /\ SameTopic
  /\ prevInstance.displayName = Str("Orders")
  /\ this.displayName = Str("Order Events")
  /\ isNil(prevInstance.policy) /\ isNil(this.policy)
  /\ isNil(prevInstance.deliveryPolicy) /\ isNil(this.deliveryPolicy)
  /\ NoStatusAttributes(prevInstance) /\ flatDeliveryStatusAttributes(this) = <<>>

\* scenario C: "orders" keeps its policy "P1" and loses its deliveryPolicy "D1"
ScenarioC ==
  /\ SameTopic
  /\ isNil(prevInstance.displayName) /\ isNil(this.displayName)
  /\ prevInstance.policy = Str("P1") /\ this.policy = Str("P1")
  /\ prevInstance.deliveryPolicy = Str("D1") /\ isNil(this.deliveryPolicy)
  /\ NoStatusAttributes(prevInstance) /\ flatDeliveryStatusAttributes(this) = <<>>

(***************************************************************************)
(* C13. deploy takes the update path, with no createTopic call, exactly    *)
(* when there is a previous instance whose topicName is this instance's,   *)
(* and otherwise calls createTopic first; when deploy has ended well the   *)
(* instance carries a topicArn: the previous instance's on the update      *)
(* path, the created topic's on the create path.                           *)
(***************************************************************************)
C13_UpdateOrCreate ==
  Started =>
    /\ path = (IF SameTopic THEN "update" ELSE "create")
    /\ SameTopic => CallsOf("createTopic") = {}
    /\ ~ SameTopic =>
         /\ CallsOf("createTopic") = {1}
         /\ calls[1].Name = this.topicName
    /\ pc = "fulfilled" =>
         /\ Truthy(this.topicArn)
         /\ this.topicArn = (IF SameTopic THEN prevInstance.topicArn ELSE NewArn)

C13_Witness ==
  /\ pc = "fulfilled"
  /\ path = "update"
  /\ calls # <<>>
  /\ this.topicArn = Str("arn:previous")

\* the create path with a previous instance of another topic name
C13_WitnessCreate ==
  /\ pc = "fulfilled"
  /\ path = "create"
  /\ prevInstance.defined
  /\ this.topicArn = NewArn

(***************************************************************************)
(* C16. A call of the delivery status group is issued only when every call *)
(* of the primary group has been fulfilled, and behind all of them; when a *)
(* primary call is rejected no delivery status call is ever issued.        *)
(***************************************************************************)
C16_PrimaryBeforeStatus ==
  /\ StatusCalls # {} =>
       \A i \in PrimaryCalls :
         /\ calls[i].status = "ok"
         /\ \A j \in StatusCalls : i < j
  /\ (\E i \in PrimaryCalls : calls[i].status = "failed") =>
       /\ StatusCalls = {}
       /\ pc = "rejected"

C16_Witness ==
  /\ Cardinality(PrimaryCalls) >= 2
  /\ Cardinality(StatusCalls) >= 1
  /\ Pending("status") # {}

\* a primary call was rejected, the others are settled, and delivery status
\* attributes were to be updated
C16_WitnessRejected ==
  /\ \E i \in PrimaryCalls : calls[i].status = "failed"
  /\ \E i \in PrimaryCalls : calls[i].status = "ok"
  /\ Pending("primary") = {}
  /\ deliveryStatusAttributesToUpdate(this, uaPrev) # <<>>

(***************************************************************************)
(* C17. Every attribute the previous side holds with a value, and whose    *)
(* key the desired side does not name, is in the change list as the unset  *)
(* entry {key: ""}, behind every entry of the desired side; this in both   *)
(* groups. In scenario C the change list is [{deliveryPolicy: ""}].        *)
(***************************************************************************)
C17_RemovedAreUnset ==
  /\ PrimaryCompared =>
       UnsetAfterDesired(toUpdate, topicAttributes(this), prevInstanceTopicAttributes(uaPrev))
  /\ StatusCompared =>
       UnsetAfterDesired(queue, flatDeliveryStatusAttributes(this),
                         OrEmpty(uaPrev.deliveryStatusAttributes))
  /\ (ScenarioC /\ Started) => toUpdate = << <<Attr("deliveryPolicy", Str(""))>> >>

C17_Witness ==
  /\ ScenarioC
  /\ pc = "fulfilled"
  /\ Len(calls) = 1
  /\ calls[1].AttributeName = "DeliveryPolicy"
  /\ calls[1].AttributeValue = Str("")

\* changed entries of the desired side and unset entries in one change list,
\* in both groups
C17_WitnessBoth ==
  /\ StatusCompared
  /\ \E i, j \in 1..Len(toUpdate) :
       Truthy(HeadValue(toUpdate[i])) /\ ~ Truthy(HeadValue(toUpdate[j]))
  /\ \E i, j \in 1..Len(queue) :
       Truthy(HeadValue(queue[i])) /\ ~ Truthy(HeadValue(queue[j]))

(***************************************************************************)
(* C18. A {key: value} pair that is the same on both sides is in no change *)
(* list, and no call is made for it: the change lists hold changed entries *)
(* of the desired side and unset entries only, and the calls are those of  *)
(* the change lists. In scenario B deploy takes the update path and the    *)
(* change list is [{displayName: "Order Events"}], with no unset entry.    *)
(***************************************************************************)
C18_UnchangedLeftOut ==
  /\ PrimaryCompared =>
       /\ OnlyChanges(toUpdate, topicAttributes(this), prevInstanceTopicAttributes(uaPrev))
       /\ Cardinality(PrimaryCalls) \in {0, Len(toUpdate)}
       /\ \A i \in PrimaryCalls :
            \E j \in 1..Len(toUpdate) :
              [calls[i] EXCEPT !.status = "pending"]
                = SetTopicAttributesCall(uaArn, toUpdate[j], "primary")
  /\ StatusCompared =>
       /\ OnlyChanges(queue, flatDeliveryStatusAttributes(this),
                      OrEmpty(uaPrev.deliveryStatusAttributes))
       /\ \A i \in StatusCalls :
            \E j \in 1..Len(queue) :
              [calls[i] EXCEPT !.status = "pending"]
                = SetTopicAttributesCall(uaArn, queue[j], "status")
  /\ (ScenarioB /\ Started) =>
       /\ path = "update"
       /\ toUpdate = << <<Attr("displayName", Str("Order Events"))>> >>
       /\ queue = <<>>
       /\ Len(calls) = 1
       /\ calls[1].AttributeName = "DisplayName"
       /\ calls[1].AttributeValue = Str("Order Events")

C18_Witness == ScenarioB /\ pc = "fulfilled"

\* an update that leaves attributes of both groups as they were and changes
\* others
C18_WitnessMixed ==
  /\ pc = "fulfilled"
  /\ path = "update"
  /\ Len(toUpdate) >= 1
  /\ Len(toUpdate) < Len(topicAttributes(this))
  /\ Len(queue) >= 1
  /\ Len(queue) < Len(flatDeliveryStatusAttributes(this))

C20_WitnessUpdate ==
  /\ pc = "rejected"
  /\ path = "update"
  /\ \E i \in PrimaryCalls : calls[i].status = "failed"
  /\ isNil(this.topicArn)
  /\ isNil(this.name)

(***************************************************************************)
(* What the claims about the order of defineComponent speak of             *)
(***************************************************************************)
\* the components define returned for the children of a component
ValidValues(component) == {e[2] : e \in ValidChildren(defined[component].entries)}

\* a tree in which two siblings return the same component from define, with
\* no previous state and every sync returning the same status; the
\* invocation on the root is fulfilled
SharedChild == <<2, "a">>

SharedChildRun ==
  /\ rootState = NoState
  /\ defined[Root] = [kind |-> "object", entries |-> {<<"x", <<1, "a">>>>, <<"y", <<1, "b">>>>}]
  /\ defined[<<1, "a">>] = [kind |-> "object", entries |-> {<<"x", SharedChild>>}]
  /\ defined[<<1, "b">>] = [kind |-> "object", entries |-> {<<"x", SharedChild>>}]
  /\ defined[SharedChild] = NoDefine
  /\ \A p \in Paths : invocations[p].status \in {"", "synced"}
  /\ invocations[<<>>].pc = "done"

(***************************************************************************)
(* C14. Two runs of defineComponent on the same tree, with the same state  *)
(* and the same results of sync and define, end with the same tree: the    *)
(* same children under the same names and the same parent links, whatever  *)
(* the order in which the invocations of the children proceed. On the tree *)
(* of SharedChildRun, every run ends as the run C14_ReferenceRun does.     *)
(***************************************************************************)
C14_SameTreeEveryRun ==
  SharedChildRun =>
    /\ children[Root].entries = {<<"x", <<1, "a">>>>, <<"y", <<1, "b">>>>}
    /\ children[<<1, "a">>].entries = {<<"x", SharedChild>>}
    /\ children[<<1, "b">>].entries = {<<"x", SharedChild>>}
    /\ parent[<<1, "a">>] = Root
    /\ parent[<<1, "b">>] = Root
    /\ parent[SharedChild] = <<1, "a">>

\* a run on that tree in which define of the component under "y" settles first
C14_ReferenceRun ==
  /\ SharedChildRun
  /\ children[Root].entries = {<<"x", <<1, "a">>>>, <<"y", <<1, "b">>>>}
  /\ children[<<1, "a">>].entries = {<<"x", SharedChild>>}
  /\ children[<<1, "b">>].entries = {<<"x", SharedChild>>}
  /\ parent[<<1, "a">>] = Root
  /\ parent[<<1, "b">>] = Root
  /\ parent[SharedChild] = <<1, "a">>

(***************************************************************************)
(* C15. In an invocation of defineComponent children is assigned at most   *)
(* once, with what define returned less the values that are no components, *)
(* so that the children of a component are components only, each with the  *)
(* component for its parent.                                               *)
(***************************************************************************)
C15_ChildrenAssignedOnce ==
  /\ \A p \in Paths : invocations[p].assigns <= 1
  /\ \A c \in Components :
       children[c].set =>
         /\ children[c].entries = ValidChildren(defined[c].entries)
         /\ \A e \in children[c].entries : isComponent(e[2]) /\ parent[e[2]] = c

(***************************************************************************)
(* C19. In every invocation of defineComponent on a component, sync is     *)
(* called once, on the clone of the component, and has settled before      *)
(* define is called; define has settled before an invocation is made for a *)
(* child, so before the sync of any child. An invocation on a value that   *)
(* is no component is rejected with a TypeError and calls neither.         *)
(***************************************************************************)
C19_SyncThenDefineThenChildren ==
  \A p \in Paths :
    LET inv == invocations[p]
    IN /\ (inv.pc # "idle" /\ isComponent(inv.component)) =>
            /\ inv.syncs = 1
            /\ inv.clone.kind = "clone"
            /\ inv.clone.of = inv.component
       /\ inv.pc = "sync" => inv.status = ""
       /\ inv.pc \in {"define", "children", "done"} => inv.status # ""
       /\ inv.pc \in {"sync", "define"} => ChildrenOf(p) = {}
       /\ ChildrenOf(p) # {} => DefineSettled(p)
       /\ (inv.pc # "idle" /\ ~ isComponent(inv.component)) =>
            /\ inv.pc = "failed"
            /\ inv.error = TypeError(inv.component)
            /\ inv.syncs = 0
            /\ inv.status = ""
            /\ inv.clone = NoState
            /\ ChildrenOf(p) = {}

C19_Witness ==
  /\ invocations[<<>>].pc = "done"
  /\ invocations[<<"x">>].pc = "done"
  /\ invocations[<<"x", "x">>].pc = "done"
  /\ invocations[<<"x", "x">>].syncs = 1
  /\ invocations[<<"x">>].status = "removed"

\* defineComponent called on a value that is no component
C19_WitnessTypeError ==
  /\ invocations[<<>>].pc = "failed"
  /\ invocations[<<>>].error = TypeError(NotAComponent)

====
